---- MODULE Spec2Model ----
(***************************************************************************)
(* A model of src/parsing/tgraph.py: the Telegraph account (flood gate,    *)
(* request lock, spacing of requests), the account pool with its rotation  *)
(* cursor, and TelegraphIfy.telegraph_ify with its retries.                *)
(*                                                                         *)
(* The program runs on one asyncio event loop.  An action of the model is  *)
(* what one task does between two suspension points (an await that does    *)
(* not return at once).  Time is counted in units of 0.5 s.                *)
(***************************************************************************)
EXTENDS Integers, Sequences, FiniteSets, TLC

\* ---------------------------------------------------------------- bounds
NumRequests == 2     \* TelegraphIfy objects whose telegraph_ify() is awaited
MaxAccounts == 2     \* the largest pool
MaxCalls == 5        \* attempts (get_account, create_page) of the one caller
MaxTokens == 6       \* the longest markup given to TelegraphIfy, in tokens

\* ---------------------------------------------------- program constants
MaxRetries == 3      \* `if self.retries >= 3`
FloodLimit == 60     \* `if retry_after >= 60`
Spacing == 1         \* the 0.5 of `0.5 - (time.time() - self.last_run)`: one unit

\* The concurrent callers together make as many attempts (get_account,
\* create_page) as one call with all its retries.
MaxConcCalls == MaxRetries + 1

\* The retry-after values a FLOOD_WAIT_<n> error may carry.
RetryAfters == {5, FloodLimit - 1, FloodLimit}

Requests == 1..NumRequests
Levels == 1..MaxRetries
Accounts == 1..MaxAccounts

VARIABLES
    accounts,         \* APIs._accounts: the pool, a sequence of accounts
    curr_id,          \* APIs._curr_id: the rotation cursor
    fc_locked,        \* Telegraph._fc_lock, locked or not, per account
    fc_waiters,       \* Telegraph._fc_lock, the tasks waiting for it, in order
    request_locked,   \* Telegraph._request_lock, locked or not, per account
    request_waiters,  \* Telegraph._request_lock, the tasks waiting for it
    last_run,         \* time.time() - Telegraph.last_run, counted up to Spacing
    token,            \* the account's credential: how often it was issued anew
    pc,               \* where each request's running telegraph_ify() stands
    acct,             \* telegraph_account of the running telegraph_ify()
    retries,          \* TelegraphIfy.retries
    timer,            \* what is left of the asyncio.sleep of create_page
    tout,             \* per request and task level, how that task ended
    cd,               \* per request and flood event, the flood_wait task
    calls,            \* history: transport calls begun, per request
    selCount,         \* history: how often get_account returned each account
    blockedBy,        \* history: who held the gate closed when the call met it
    long_flood,       \* history: the request met a flood error of 60 s or more
    start_age,        \* history: time since the account's last transport start
    tokens,           \* APIs.tokens: per credential, 60 characters long or not
    apis,             \* the module's `apis`: not yet set, None, or the pool
    boot,             \* where APIs.init stands, and what its current token met
    xml,              \* per request, the markup given to TelegraphIfy(xml=...)
    link,             \* per request, whether TelegraphIfy was given a link
    content           \* TelegraphIfy.telegraph_html_content

poolVars == <<accounts, curr_id>>
lockVars == <<fc_locked, fc_waiters, request_locked, request_waiters>>
acctVars == <<last_run, token>>
taskVars == <<pc, acct, retries, timer, tout, cd>>
histVars == <<calls, selCount, blockedBy, long_flood, start_age>>
bootVars == <<tokens, apis, boot>>
pageVars == <<xml, link, content>>
vars == <<poolVars, lockVars, acctVars, taskVars, histVars, bootVars, pageVars>>

\* A flood_wait task: where it stands, its account and retry_after, what is
\* left of its sleep; history: how long it has slept, whether it closed the
\* gate, how often it called create_account.
NoDriver == [st |-> "none", acct |-> 0, ra |-> 0, timer |-> 0,
             slept |-> 0, closed |-> FALSE, issued |-> 0]

\* A flood_wait task that has returned ("done") or raised ("failed"): its
\* locals are gone.
Ended(st, closed) == [NoDriver EXCEPT !.st = st, !.closed = closed]

Min(S) == CHOOSE x \in S : \A y \in S : x <= y

\* ------------------------------------------------------------ the pool

\* get_account: the index it reads.
CurrentIndex(c, n) == IF 0 <= c /\ c < n THEN c ELSE 0

NextCursorNoWrap(i, n) == i + 1

NextCursorSkipsLast(i, n) == IF 0 <= i + 1 /\ i + 1 < n - 1 THEN i + 1 ELSE 0

\* get_account: the cursor it leaves.
NextCursor(i, n) == IF 0 <= i + 1 /\ i + 1 < n THEN i + 1 ELSE 0

\* ------------------------------------------------------ the account

\* asyncio.Lock.acquire returns at once only when the lock is free and no
\* task waits for it; otherwise the caller joins the waiters.
GateBlockedNever(a) == FALSE

GateBlockedAny(a) == \E b \in Accounts : fc_locked[b] \/ fc_waiters[b] # <<>>

GateBlocked(a) == fc_locked[a] \/ fc_waiters[a] # <<>>

RequestLockBusyNever(a, rl) == FALSE

RequestLockBusy(a, rl) == rl[a] \/ request_waiters[a] # <<>>

ReopenedNot(fl, a) == fl

\* The end of `async with self._fc_lock` in flood_wait: the gate reopens.
Reopened(fl, a) == [fl EXCEPT ![a] = FALSE]

ReleasedNot(rl, a) == rl

\* The end of `async with self._request_lock`: the lock is released.
Released(rl, a) == [rl EXCEPT ![a] = FALSE]

SpacingDelayNone(age) == 0

\* max(0.5 - (time.time() - self.last_run), 0)
SpacingDelay(age) == IF Spacing - age > 0 THEN Spacing - age ELSE 0

FloodTooLongAbove(ra) == ra > FloodLimit

\* flood_wait: `if retry_after >= 60`
FloodTooLong(ra) == ra >= FloodLimit

\* asyncio.sleep(retry_after + 1), in units of 0.5 s
CooldownSleep(ra) == (ra + 1) + (ra + 1)

\* The flood_wait tasks that hold account a's gate closed.
Holders(a) == {d \in Requests \X Levels :
                 /\ cd[d[1]][d[2]].st \in {"sleeping", "issuing"}
                 /\ cd[d[1]][d[2]].acct = a}

\* --------------------------------------------------- telegraph_ify

RetriesExhaustedAbove(n) == n > MaxRetries

\* `if self.retries >= 3: raise OverflowError`
RetriesExhausted(n) == n >= MaxRetries

\* asyncio.gather(self.telegraph_ify(), flood_wait(...)) at level k, awaited by
\* the task of level k - 1: the first exception of either goes to the awaiting
\* task at once; otherwise the retry's result, once both have finished.
\* t: how the tasks of the request ended, level k just having ended.
RECURSIVE Settle(_, _, _)
Settle(t, k, c) ==
    IF k = 0 \/ t[k - 1] # "none" THEN t
    ELSE IF t[k] # "url" THEN Settle([t EXCEPT ![k - 1] = t[k]], k - 1, c)
    ELSE IF c[k].st = "done" THEN Settle([t EXCEPT ![k - 1] = "url"], k - 1, c)
    ELSE t

\* The flood_wait task of level k has ended, c being the drivers after that.
SettleDriver(t, k, c) ==
    IF t[k - 1] # "none" THEN t
    ELSE IF c[k].st = "failed"
         THEN Settle([t EXCEPT ![k - 1] = "issuefail"], k - 1, c)
    ELSE IF t[k] = "url" THEN Settle(t, k, c)
    ELSE t

TotalSel == LET RECURSIVE S(_)
                S(a) == IF a = 0 THEN 0 ELSE selCount[a] + S(a - 1)
            IN S(MaxAccounts)

\* A flood_wait task that gather has scheduled right behind its sibling retry,
\* which has run: it is the next task the event loop runs.
Urgent == \E r \in Requests, k \in Levels : cd[r][k].st = "spawned" /\ pc[r] # "ready"

\* ------------------------------------------------------------ the page

TELEGRAPH_ALLOWED_TAGS ==
    {"a", "aside", "b", "blockquote", "br", "code", "em", "figcaption", "figure",
     "h3", "h4", "hr", "i", "iframe", "img", "li", "ol", "p", "pre", "s",
     "strong", "u", "ul", "video"}

ALLOWED_ATTRS == {"href", "src"}

\* Markup is a string of tokens: a start tag with its attributes, an end tag,
\* or a character of text.
Open(name, attrs) == [t |-> "open", name |-> name, attrs |-> attrs]
Close(name) == [t |-> "close", name |-> name, attrs |-> {}]
Char(c) == [t |-> "text", name |-> c, attrs |-> {}]

\* A parse tree: soup.nodes[i] is a tag (with its contents, a sequence of
\* nodes) or a string (with its text); soup.top is the contents of the
\* BeautifulSoup object, which is parent 0.
NoSoup == [nodes |-> <<>>, top |-> <<>>]

Contents(soup, n) == IF n = 0 THEN soup.top ELSE soup.nodes[n].kids

WithContents(soup, n, k) ==
    IF n = 0 THEN [soup EXCEPT !.top = k] ELSE [soup EXCEPT !.nodes[n].kids = k]

\* The parser reads the tokens s[i..]; open: the tags not yet closed.
RECURSIVE Build(_, _, _, _)
Build(s, i, soup, open) ==
    IF i > Len(s) THEN soup
    ELSE LET tok == s[i]
             par == IF open = <<>> THEN 0 ELSE open[Len(open)]
             id == Len(soup.nodes) + 1
             sibs == Contents(soup, par)
         IN IF tok.t = "close"
            THEN Build(s, i + 1, soup, SubSeq(open, 1, Len(open) - 1))
            ELSE IF tok.t = "open"
            THEN Build(s, i + 1,
                       WithContents(
                           [soup EXCEPT !.nodes = Append(@,
                               [tag |-> tok.name, attrs |-> tok.attrs, kids |-> <<>>,
                                text |-> <<>>, parent |-> par])],
                           par, Append(sibs, id)),
                       Append(open, id))
            ELSE IF i > 1 /\ s[i - 1].t = "text"
            THEN Build(s, i + 1,
                       [soup EXCEPT !.nodes[sibs[Len(sibs)]].text = Append(@, tok.name)],
                       open)
            ELSE Build(s, i + 1,
                       WithContents(
                           [soup EXCEPT !.nodes = Append(@,
                               [tag |-> "#text", attrs |-> {}, kids |-> <<>>,
                                text |-> <<tok.name>>, parent |-> par])],
                           par, Append(sibs, id)),
                       open)

\* What the lxml parser makes of a fragment of inline tags: nothing of the
\* empty string; else html and body around it, and a p around it when it
\* begins with text.
Parsed(s) ==
    IF s = <<>> THEN s
    ELSE <<Open("html", {}), Open("body", {})>>
         \o (IF s[1].t = "text" THEN <<Open("p", {})>> \o s \o <<Close("p")>> ELSE s)
         \o <<Close("body"), Close("html")>>

\* BeautifulSoup(xml, 'lxml')
BeautifulSoup(s) == Build(Parsed(s), 1, NoSoup, <<>>)

\* soup.find_all(recursive=True): the tags below the nodes ids, in document
\* order, as a list made before the loop runs.
RECURSIVE find_all(_, _)
find_all(soup, ids) ==
    IF ids = <<>> THEN <<>>
    ELSE LET n == Head(ids)
         IN (IF soup.nodes[n].tag = "#text" THEN <<>>
             ELSE <<n>> \o find_all(soup, soup.nodes[n].kids))
            \o find_all(soup, Tail(ids))

IndexOf(q, x) == CHOOSE i \in 1..Len(q) : q[i] = x

SplicedReversed(q, i, sub) ==
    SubSeq(q, 1, i - 1) \o [j \in 1..Len(sub) |-> sub[Len(sub) + 1 - j]]
    \o SubSeq(q, i + 1, Len(q))

\* The contents q with its i-th node replaced by the nodes sub: unwrap inserts
\* the children at the tag's index, last child first.
Spliced(q, i, sub) == SubSeq(q, 1, i - 1) \o sub \o SubSeq(q, i + 1, Len(q))

\* tag.replaceWithChildren(): the tag is taken out of its parent and its
\* children put in its place.
replaceWithChildren(soup, n) ==
    LET par == soup.nodes[n].parent
        kids == soup.nodes[n].kids
        moved == [soup EXCEPT !.nodes =
                    [i \in 1..Len(@) |->
                       IF i = n THEN [@[i] EXCEPT !.kids = <<>>, !.parent = -1]
                       ELSE IF @[i].parent = n THEN [@[i] EXCEPT !.parent = par]
                       ELSE @[i]]]
    IN WithContents(moved, par, Spliced(Contents(soup, par), IndexOf(Contents(soup, par), n), kids))

\* `if attr not in ALLOWED_ATTRS: del tag.attrs[attr]`
AllowedOf(attrs) == attrs \cap ALLOWED_ATTRS

\* The loop of TelegraphIfy.__init__ over the tags of todo.
RECURSIVE Sanitize(_, _)
Sanitize(soup, todo) ==
    IF todo = <<>> THEN soup
    ELSE LET n == Head(todo)
         IN IF soup.nodes[n].tag \notin TELEGRAPH_ALLOWED_TAGS
            THEN Sanitize(replaceWithChildren(soup, n), Tail(todo))
            ELSE Sanitize([soup EXCEPT !.nodes[n].attrs = AllowedOf(@)], Tail(todo))

\* str(soup) of the nodes ids.
RECURSIVE Str(_, _)
Str(soup, ids) ==
    IF ids = <<>> THEN <<>>
    ELSE LET n == soup.nodes[Head(ids)]
         IN (IF n.tag = "#text" THEN [j \in 1..Len(n.text) |-> Char(n.text[j])]
             ELSE <<Open(n.tag, n.attrs)>> \o Str(soup, n.kids) \o <<Close(n.tag)>>)
            \o Str(soup, Tail(ids))

\* TelegraphIfy.__init__, lines 126-134, then str(soup): the sanitized markup.
Sanitized(s) ==
    LET soup == BeautifulSoup(s)
        clean == Sanitize(soup, find_all(soup, soup.top))
    IN Str(clean, clean.top)

\* The two parts of the footer: the attribution with the notice on
\* anti-hotlinking, and the link to the source.
Footer == <<Char("Generated by RSStT ...")>>
Source == <<Char("Source")>>

\* self.telegraph_html_content: the conditional expression takes in the
\* whole sum, `(str(soup) + ... + ...) if link else ''`.
HtmlContent(s, l) == IF l THEN Sanitized(s) \o Footer \o Source ELSE <<>>

\* ---------------------------------------------------------------- Init

\* APIs.init at the head of its loop, about to take token i; history of the
\* token before: invalid (its length was not 60, or get_account_info raised),
\* tried (create_account was called for it), failed (a create_account raised).
AtToken(i, invalid, tried, failed) ==
    [st |-> "next", i |-> i, invalid |-> invalid, tried |-> tried, failed |-> failed]

\* The token lists of env.TELEGRAPH_TOKEN.split(','), each token being of 60
\* characters ("good") or not ("bad").
TokenLists == UNION {[1..n -> {"good", "bad"}] : n \in 0..MaxAccounts}

\* APIs.init has returned after n tokens, all of 60 characters and valid.
Booted(n) == [AtToken(n + 1, FALSE, FALSE, FALSE) EXCEPT !.st = "done"]

\* The state after the module is loaded: a valid pool of 1..MaxAccounts
\* accounts, the cursor at 0, every lock free, last_run = 0 (long ago), and
\* NumRequests TelegraphIfy objects constructed, telegraph_ify() not yet run.
\* Every lock free, last_run = 0 (long ago), no telegraph_ify() run yet; the
\* requests in live stand at `first`.
InitRest(live, first) ==
    /\ curr_id = 0
    /\ fc_locked = [a \in Accounts |-> FALSE]
    /\ fc_waiters = [a \in Accounts |-> <<>>]
    /\ request_locked = [a \in Accounts |-> FALSE]
    /\ request_waiters = [a \in Accounts |-> <<>>]
    /\ last_run = [a \in Accounts |-> Spacing]
    /\ token = [a \in Accounts |-> 0]
    /\ pc = [r \in Requests |-> IF r \in live THEN first ELSE "absent"]
    /\ acct = [r \in Requests |-> 0]
    /\ retries = [r \in Requests |-> 0]
    /\ timer = [r \in Requests |-> 0]
    /\ tout = [r \in Requests |-> [k \in 0..MaxRetries |-> "none"]]
    /\ cd = [r \in Requests |-> [k \in Levels |-> NoDriver]]
    /\ calls = [r \in Requests |-> 0]
    /\ selCount = [a \in Accounts |-> 0]
    /\ blockedBy = [r \in Requests |-> {}]
    /\ long_flood = [r \in Requests |-> FALSE]
    /\ start_age = [a \in Accounts |-> Spacing]
    /\ content = [r \in Requests |->
                    IF first = "ready" THEN HtmlContent(xml[r], link[r]) ELSE <<>>]

\* The requests are given no markup and no link.
NoPages ==
    /\ xml = [r \in Requests |-> <<>>]
    /\ link = [r \in Requests |-> FALSE]

InitWith(live) ==
    /\ \E n \in 1..MaxAccounts :
          /\ accounts = [i \in 1..n |-> i]
          /\ tokens = [i \in 1..n |-> "good"]
          /\ boot = Booted(n)
    /\ apis = "pool"
    /\ NoPages
    /\ InitRest(live, "ready")

\* The tokens of the markup given to TelegraphIfy: text, a tag that Telegraph
\* allows, with an attribute it allows and one it does not, and a tag that it
\* does not allow.
Tokens == {Char("A"), Char("B"),
           Open("b", {"href", "onclick"}), Close("b"),
           Open("span", {"class"}), Close("span")}

\* Every end tag of s[i..] closes the last tag still open, and none is left.
RECURSIVE Balanced(_, _, _)
Balanced(s, i, open) ==
    IF i > Len(s) THEN open = <<>>
    ELSE IF s[i].t = "open" THEN Balanced(s, i + 1, Append(open, s[i].name))
    ELSE IF s[i].t = "close"
    THEN /\ open # <<>>
         /\ open[Len(open)] = s[i].name
         /\ Balanced(s, i + 1, SubSeq(open, 1, Len(open) - 1))
    ELSE Balanced(s, i + 1, open)

Markups == {s \in UNION {[1..m -> Tokens] : m \in 0..MaxTokens} : Balanced(s, 1, <<>>)}

\* The module is loaded with one valid token; one TelegraphIfy is about to be
\* constructed, of some markup, with a link or without.
InitPage ==
    /\ accounts = <<1>>
    /\ tokens = <<"good">>
    /\ boot = Booted(1)
    /\ apis = "pool"
    /\ \E m \in Markups, l \in BOOLEAN :
          /\ xml = [r \in Requests |-> IF r = 1 THEN m ELSE <<>>]
          /\ link = [r \in Requests |-> r = 1 /\ l]
    /\ InitRest({1}, "init")

\* The module is being loaded: env.TELEGRAPH_TOKEN holds 0..MaxAccounts
\* tokens, no account exists, and one TelegraphIfy is yet to be constructed.
InitBoot ==
    /\ tokens \in TokenLists
    /\ accounts = <<>>
    /\ apis = "unset"
    /\ boot = [AtToken(1, FALSE, FALSE, FALSE) EXCEPT !.st = "start"]
    /\ NoPages
    /\ InitRest({1}, "init")

\* ------------------------------------------------- pieces of actions

\* The running telegraph_ify() of request r ends with result o (a return or a
\* raise); the tasks awaiting it in gather learn of it.
Finish(r, o) ==
    /\ pc' = [pc EXCEPT ![r] = "done"]
    /\ acct' = [acct EXCEPT ![r] = 0]
    /\ blockedBy' = [blockedBy EXCEPT ![r] = {}]
    /\ tout' = [tout EXCEPT ![r] =
                  Settle([tout[r] EXCEPT ![retries[r]] = o], retries[r], cd[r])]

\* create_page from `async with self._request_lock` to the asyncio.sleep;
\* rl is request_locked as it is when this runs.
TakeRequestLock(r, a, rl) ==
    IF RequestLockBusy(a, rl)
    THEN /\ request_waiters' = [request_waiters EXCEPT ![a] = Append(@, <<r, 0>>)]
         /\ request_locked' = rl
         /\ pc' = [pc EXCEPT ![r] = "lock"]
         /\ timer' = timer
    ELSE /\ request_locked' = [rl EXCEPT ![a] = TRUE]
         /\ request_waiters' = request_waiters
         /\ pc' = [pc EXCEPT ![r] = "sleep"]
         /\ timer' = [timer EXCEPT ![r] = SpacingDelay(last_run[a])]

\* create_page from its first line to its first suspension.
CreatePage(r, a, rl) ==
    /\ blockedBy' = [blockedBy EXCEPT ![r] = IF fc_locked[a] THEN Holders(a) ELSE {}]
    /\ IF GateBlocked(a)
       THEN /\ fc_waiters' = [fc_waiters EXCEPT ![a] = Append(@, <<r, 0>>)]
            /\ pc' = [pc EXCEPT ![r] = "gate"]
            /\ request_locked' = rl
            /\ UNCHANGED <<request_waiters, timer>>
       ELSE /\ fc_waiters' = fc_waiters
            /\ TakeRequestLock(r, a, rl)

\* telegraph_ify from its first line to its first suspension.
Attempt(r, rl) ==
    IF RetriesExhausted(retries[r])
    THEN /\ Finish(r, "overflow")
         /\ request_locked' = rl
         /\ UNCHANGED <<poolVars, fc_waiters, request_waiters, timer, selCount>>
    ELSE IF accounts = <<>>
    THEN /\ Finish(r, "config")
         /\ request_locked' = rl
         /\ UNCHANGED <<poolVars, fc_waiters, request_waiters, timer, selCount>>
    ELSE LET i == CurrentIndex(curr_id, Len(accounts))
             a == accounts[i + 1]
         IN /\ curr_id' = NextCursor(i, Len(accounts))
            /\ accounts' = accounts
            /\ acct' = [acct EXCEPT ![r] = a]
            /\ selCount' = [selCount EXCEPT ![a] = @ + 1]
            /\ tout' = tout
            /\ CreatePage(r, a, rl)

\* ------------------------------------------------------------ actions

\* A task starts telegraph_ify(): the caller's first call, or the retry that
\* gather scheduled after a flood error.
Enter(r, budget) ==
    /\ ~Urgent
    /\ pc[r] = "ready"
    /\ RetriesExhausted(retries[r]) \/ TotalSel < budget
    /\ \A q \in Requests : q < r => (pc[q] # "ready" \/ retries[q] > 0)
    /\ Attempt(r, request_locked)
    /\ UNCHANGED <<fc_locked, acctVars, retries, cd, calls, long_flood, start_age>>
    /\ UNCHANGED <<bootVars, pageVars>>

\* The gate was reopened and r is the first of its waiters: `async with
\* self._fc_lock: pass` takes and frees the lock, and create_page goes on.
PassGate(r) ==
    /\ ~Urgent
    /\ pc[r] = "gate"
    /\ ~fc_locked[acct[r]]
    /\ Head(fc_waiters[acct[r]]) = <<r, 0>>
    /\ fc_waiters' = [fc_waiters EXCEPT ![acct[r]] = Tail(@)]
    /\ TakeRequestLock(r, acct[r], request_locked)
    /\ UNCHANGED <<poolVars, fc_locked, acctVars, acct, retries, tout, cd,
                   histVars>>
    /\ UNCHANGED <<bootVars, pageVars>>

\* The request lock was freed and r is the first of its waiters.
AcquireRequestLock(r) ==
    /\ ~Urgent
    /\ pc[r] = "lock"
    /\ ~request_locked[acct[r]]
    /\ Head(request_waiters[acct[r]]) = <<r, 0>>
    /\ request_waiters' = [request_waiters EXCEPT ![acct[r]] = Tail(@)]
    /\ request_locked' = [request_locked EXCEPT ![acct[r]] = TRUE]
    /\ pc' = [pc EXCEPT ![r] = "sleep"]
    /\ timer' = [timer EXCEPT ![r] = SpacingDelay(last_run[acct[r]])]
    /\ UNCHANGED <<poolVars, fc_locked, fc_waiters, acctVars, acct, retries,
                   tout, cd, histVars>>
    /\ UNCHANGED <<bootVars, pageVars>>

\* The asyncio.sleep of create_page is over: the transport call begins.
BeginTransport(r) ==
    /\ ~Urgent
    /\ pc[r] = "sleep"
    /\ timer[r] = 0
    /\ pc' = [pc EXCEPT ![r] = "call"]
    /\ calls' = [calls EXCEPT ![r] = @ + 1]
    /\ start_age' = [start_age EXCEPT ![acct[r]] = 0]
    /\ UNCHANGED <<poolVars, lockVars, acctVars, acct, retries, timer, tout,
                   cd, selCount, blockedBy, long_flood>>
    /\ UNCHANGED <<bootVars, pageVars>>

\* The transport call returns a page: last_run is set, the lock freed, the
\* url returned.
CallReturns(r) ==
    /\ ~Urgent
    /\ pc[r] = "call"
    /\ last_run' = [last_run EXCEPT ![acct[r]] = 0]
    /\ request_locked' = Released(request_locked, acct[r])
    /\ Finish(r, "url")
    /\ UNCHANGED <<poolVars, fc_locked, fc_waiters, request_waiters, token,
                   retries, timer, cd, calls, selCount, long_flood, start_age>>
    /\ UNCHANGED <<bootVars, pageVars>>

\* The transport call raises TelegraphError('FLOOD_WAIT_<ra>'): the lock is
\* freed, retries grows, and gather schedules the retry and flood_wait(ra) on
\* the account of the error, in this order.
CallFlood(r, ra) ==
    /\ ~Urgent
    /\ pc[r] = "call"
    /\ request_locked' = Released(request_locked, acct[r])
    /\ retries' = [retries EXCEPT ![r] = @ + 1]
    /\ pc' = [pc EXCEPT ![r] = "ready"]
    /\ cd' = [cd EXCEPT ![r][retries[r] + 1] =
                [NoDriver EXCEPT !.st = "spawned", !.acct = acct[r], !.ra = ra]]
    /\ long_flood' = [long_flood EXCEPT ![r] = @ \/ ra >= FloodLimit]
    /\ UNCHANGED <<poolVars, fc_locked, fc_waiters, request_waiters,
                   acctVars, acct, timer, tout, calls, selCount,
                   blockedBy, start_age>>
    /\ UNCHANGED <<bootVars, pageVars>>

\* The transport call raises another TelegraphError, or a timeout: the lock is
\* freed and the error raised.
CallFails(r, o) ==
    /\ ~Urgent
    /\ pc[r] = "call"
    /\ o \in {"timeout", "svcerr"}
    /\ request_locked' = Released(request_locked, acct[r])
    /\ Finish(r, o)
    /\ UNCHANGED <<poolVars, fc_locked, fc_waiters, request_waiters,
                   acctVars, retries, timer, cd, calls, selCount,
                   long_flood, start_age>>
    /\ UNCHANGED <<bootVars, pageVars>>

\* The transport call raises ClientError or ConnectionError: the lock is
\* freed and, retries being below 3, telegraph_ify() is awaited again, which
\* runs at once, in the same task.
CallNetError(r, budget) ==
    /\ ~Urgent
    /\ pc[r] = "call"
    /\ TotalSel < budget
    /\ IF retries[r] < MaxRetries
       THEN Attempt(r, Released(request_locked, acct[r]))
       ELSE /\ request_locked' = Released(request_locked, acct[r])
            /\ Finish(r, "net")
            /\ UNCHANGED <<poolVars, fc_waiters, request_waiters, timer, selCount>>
    /\ UNCHANGED <<fc_locked, acctVars, retries, cd, calls, long_flood, start_age>>
    /\ UNCHANGED <<bootVars, pageVars>>

\* flood_wait closes the gate: it creates an account or sleeps.
CloseGate(r, k) ==
    LET long == FloodTooLong(cd[r][k].ra)
    IN /\ fc_locked' = [fc_locked EXCEPT ![cd[r][k].acct] = TRUE]
       /\ cd' = [cd EXCEPT ![r][k] =
                   [@ EXCEPT !.st = IF long THEN "issuing" ELSE "sleeping",
                             !.timer = IF long THEN 0 ELSE CooldownSleep(cd[r][k].ra),
                             !.issued = IF long THEN 1 ELSE 0,
                             !.closed = TRUE]]

GateClosedNever(a) == FALSE

\* flood_wait: `self._fc_lock.locked()`
GateClosed(a) == fc_locked[a]

\* flood_wait(ra) starts, right after its sibling retry has run.
CdStart(r, k) ==
    /\ cd[r][k].st = "spawned"
    /\ pc[r] # "ready"
    /\ LET a == cd[r][k].acct
       IN IF GateClosed(a)
          THEN /\ cd' = [cd EXCEPT ![r][k] = Ended("done", FALSE)]
               /\ tout' = [tout EXCEPT ![r] = SettleDriver(@, k, cd'[r])]
               /\ UNCHANGED <<fc_locked, fc_waiters>>
          ELSE IF GateBlocked(a)
          THEN /\ fc_waiters' = [fc_waiters EXCEPT ![a] = Append(@, <<r, k>>)]
               /\ cd' = [cd EXCEPT ![r][k].st = "gatewait"]
               /\ UNCHANGED <<fc_locked, tout>>
          ELSE /\ CloseGate(r, k)
               /\ UNCHANGED <<fc_waiters, tout>>
    /\ UNCHANGED <<poolVars, request_locked, request_waiters, acctVars, pc,
                   acct, retries, timer, histVars>>
    /\ UNCHANGED <<bootVars, pageVars>>

\* flood_wait had to wait for the lock and is the first of its waiters.
CdAcquire(r, k) ==
    /\ ~Urgent
    /\ cd[r][k].st = "gatewait"
    /\ ~fc_locked[cd[r][k].acct]
    /\ Head(fc_waiters[cd[r][k].acct]) = <<r, k>>
    /\ fc_waiters' = [fc_waiters EXCEPT ![cd[r][k].acct] = Tail(@)]
    /\ CloseGate(r, k)
    /\ UNCHANGED <<poolVars, request_locked, request_waiters, acctVars, pc,
                   acct, retries, timer, tout, histVars>>
    /\ UNCHANGED <<bootVars, pageVars>>

\* asyncio.sleep(retry_after + 1) is over: the gate reopens.
CdWake(r, k) ==
    /\ ~Urgent
    /\ cd[r][k].st = "sleeping"
    /\ cd[r][k].timer = 0
    /\ fc_locked' = Reopened(fc_locked, cd[r][k].acct)
    /\ cd' = [cd EXCEPT ![r][k] = Ended("done", TRUE)]
    /\ tout' = [tout EXCEPT ![r] = SettleDriver(@, k, cd'[r])]
    /\ UNCHANGED <<poolVars, fc_waiters, request_locked, request_waiters,
                   acctVars, pc, acct, retries, timer, histVars>>
    /\ UNCHANGED <<bootVars, pageVars>>

\* create_account returns (the account has a new token) or raises: the gate
\* reopens either way.
CdIssued(r, k, ok) ==
    /\ ~Urgent
    /\ cd[r][k].st = "issuing"
    /\ fc_locked' = Reopened(fc_locked, cd[r][k].acct)
    /\ token' = [token EXCEPT ![cd[r][k].acct] = IF ok THEN @ + 1 ELSE @]
    /\ cd' = [cd EXCEPT ![r][k] = Ended(IF ok THEN "done" ELSE "failed", TRUE)]
    /\ tout' = [tout EXCEPT ![r] = SettleDriver(@, k, cd'[r])]
    /\ UNCHANGED <<poolVars, fc_waiters, request_locked, request_waiters,
                   last_run, pc, acct, retries, timer, histVars>>
    /\ UNCHANGED <<bootVars, pageVars>>

\* The sleeps that are running.
Timers == {timer[r] : r \in {q \in Requests : pc[q] = "sleep"}}
          \cup {cd[d[1]][d[2]].timer :
                  d \in {e \in Requests \X Levels : cd[e[1]][e[2]].st = "sleeping"}}

Aged(f, d) == [a \in Accounts |-> IF f[a] + d < Spacing THEN f[a] + d ELSE Spacing]

\* Time passes: up to the next wake-up, or by one unit when no task sleeps
\* and network calls are pending.
Tick ==
    /\ ~Urgent
    /\ IF Timers # {}
       THEN Min(Timers) > 0
       ELSE /\ \/ \E r \in Requests : pc[r] = "call"
               \/ \E r \in Requests, k \in Levels : cd[r][k].st = "issuing"
            /\ \E a \in Accounts : last_run[a] < Spacing \/ start_age[a] < Spacing
    /\ LET d == IF Timers # {} THEN Min(Timers) ELSE 1
       IN /\ timer' = [r \in Requests |-> IF pc[r] = "sleep" THEN timer[r] - d ELSE timer[r]]
          /\ cd' = [r \in Requests |-> [k \in Levels |->
                      IF cd[r][k].st = "sleeping"
                      THEN [cd[r][k] EXCEPT !.timer = @ - d, !.slept = @ + d]
                      ELSE cd[r][k]]]
          /\ last_run' = Aged(last_run, d)
          /\ start_age' = Aged(start_age, d)
    /\ UNCHANGED <<poolVars, lockVars, token, pc, acct, retries, tout,
                   calls, selCount, blockedBy, long_flood>>
    /\ UNCHANGED <<bootVars, pageVars>>

\* ------------------------------------------- loading the module

\* `if env.TELEGRAPH_TOKEN`
Configured(t) == t # <<>>

\* APIs.valid: bool(self._accounts)
Valid(accs) == accs # <<>>

NoPoolNever(x) == FALSE

\* TelegraphIfy.__init__: `if not apis`
NoPool(x) == x = "none"

\* The outcomes of create_account and get_account_info: a return, a
\* TelegraphError, or another exception (network error, timeout).
Outcomes == {"ok", "svcerr", "neterr"}

\* lines 74 and 82: only an exception that is no TelegraphError drops the
\* account without (another) create_account.
DropsAtOnce(o) == o = "neterr"

\* The module is loaded: without tokens `apis` stays None, else APIs(tokens)
\* is constructed and init() begins.
Bootstrap ==
    /\ boot.st = "start"
    /\ IF Configured(tokens)
       THEN /\ boot' = AtToken(1, FALSE, FALSE, FALSE)
            /\ apis' = apis
       ELSE /\ boot' = [boot EXCEPT !.st = "off"]
            /\ apis' = "none"
    /\ UNCHANGED <<poolVars, lockVars, acctVars, taskVars, histVars, tokens, pageVars>>

\* init takes the next token: a token that is not of 60 characters has
\* create_account called, another get_account_info.
BootToken ==
    /\ boot.st = "next"
    /\ boot.i <= Len(tokens)
    /\ boot' = IF tokens[boot.i] = "bad"
               THEN [st |-> "issue", i |-> boot.i, invalid |-> TRUE,
                     tried |-> TRUE, failed |-> FALSE]
               ELSE [st |-> "info", i |-> boot.i, invalid |-> FALSE,
                     tried |-> FALSE, failed |-> FALSE]
    /\ UNCHANGED <<poolVars, lockVars, acctVars, taskVars, histVars, tokens, apis, pageVars>>

\* The create_account of line 70 ends: get_account_info is next, or the
\* except clause of its exception.
BootIssued(o) ==
    /\ boot.st = "issue"
    /\ o \in Outcomes
    /\ token' = [token EXCEPT ![boot.i] = IF o = "ok" THEN @ + 1 ELSE @]
    /\ boot' = IF o = "ok" THEN [boot EXCEPT !.st = "info"]
               ELSE IF DropsAtOnce(o)
               THEN AtToken(boot.i + 1, boot.invalid, boot.tried, TRUE)
               ELSE [boot EXCEPT !.st = "reissue", !.failed = TRUE]
    /\ UNCHANGED <<poolVars, lockVars, last_run, taskVars, histVars, tokens, apis, pageVars>>

\* get_account_info ends: the account joins the pool, or the except clause
\* of its exception runs.
BootInfo(o) ==
    /\ boot.st = "info"
    /\ o \in Outcomes
    /\ accounts' = IF o = "ok" THEN Append(accounts, boot.i) ELSE accounts
    /\ boot' = IF o = "ok" THEN AtToken(boot.i + 1, boot.invalid, boot.tried, boot.failed)
               ELSE IF DropsAtOnce(o)
               THEN AtToken(boot.i + 1, TRUE, boot.tried, boot.failed)
               ELSE [boot EXCEPT !.st = "reissue", !.invalid = TRUE, !.tried = TRUE]
    /\ UNCHANGED <<curr_id, lockVars, acctVars, taskVars, histVars, tokens, apis, pageVars>>

\* The create_account of line 77 ends: the account joins the pool, or is
\* left out with a warning.
BootReissued(o) ==
    /\ boot.st = "reissue"
    /\ o \in Outcomes
    /\ token' = [token EXCEPT ![boot.i] = IF o = "ok" THEN @ + 1 ELSE @]
    /\ accounts' = IF o = "ok" THEN Append(accounts, boot.i) ELSE accounts
    /\ boot' = AtToken(boot.i + 1, boot.invalid, boot.tried, boot.failed \/ o # "ok")
    /\ UNCHANGED <<curr_id, lockVars, last_run, taskVars, histVars, tokens, apis, pageVars>>

\* init has gone through the tokens: `apis` is the pool if it is valid, else
\* None.
BootEnd ==
    /\ boot.st = "next"
    /\ boot.i > Len(tokens)
    /\ boot' = Booted(Len(tokens))
    /\ apis' = IF Valid(accounts) THEN "pool" ELSE "none"
    /\ UNCHANGED <<poolVars, lockVars, acctVars, taskVars, histVars, tokens, pageVars>>

\* TelegraphIfy(...) is constructed: without a pool it raises
\* TelegraphError('Telegraph token no set!').
Construct(r) ==
    /\ pc[r] = "init"
    /\ apis # "unset"
    /\ IF NoPool(apis)
       THEN /\ pc' = [pc EXCEPT ![r] = "done"]
            /\ tout' = [tout EXCEPT ![r][0] = "config"]
            /\ content' = content
       ELSE /\ pc' = [pc EXCEPT ![r] = "ready"]
            /\ tout' = tout
            /\ content' = [content EXCEPT ![r] = HtmlContent(xml[r], link[r])]
    /\ UNCHANGED <<poolVars, lockVars, acctVars, acct, retries, timer, cd,
                   histVars, bootVars, xml, link>>

\* One caller awaits one telegraph_ify().
Init == InitWith({1})

\* NumRequests callers await one telegraph_ify() each, concurrently.
InitConc == InitWith(Requests)

\* What the tasks of one caller can do.
NextWith(ras, errs, budget) ==
    \/ \E r \in Requests : Enter(r, budget)
    \/ \E r \in Requests : PassGate(r)
    \/ \E r \in Requests : BeginTransport(r)
    \/ \E r \in Requests : CallReturns(r)
    \/ \E r \in Requests, ra \in ras : CallFlood(r, ra)
    \/ \E r \in Requests, o \in errs : CallFails(r, o)
    \/ \E r \in Requests : CallNetError(r, budget)
    \/ \E r \in Requests, k \in Levels : CdStart(r, k)
    \/ \E r \in Requests, k \in Levels : CdWake(r, k)
    \/ \E r \in Requests, k \in Levels, ok \in BOOLEAN : CdIssued(r, k, ok)
    \/ Tick

\* One caller: no task ever finds the request lock taken, and no flood_wait
\* finds tasks waiting at an open gate (NoLockWaitAlone).
Next == NextWith(RetryAfters, {"timeout", "svcerr"}, MaxCalls)

\* Several callers: tasks also wait for the request lock, and flood_wait for
\* the gate.
NextConc ==
    \/ NextWith({FloodLimit - 1, FloodLimit}, {"svcerr"}, MaxConcCalls)
    \/ \E r \in Requests : AcquireRequestLock(r)
    \/ \E r \in Requests, k \in Levels : CdAcquire(r, k)

\* The module is loaded, then one caller constructs a TelegraphIfy and
\* awaits its telegraph_ify(), whose create_page returns a page or raises an
\* error that ends the request.
NextBoot ==
    \/ Bootstrap
    \/ BootToken
    \/ \E o \in Outcomes : BootIssued(o)
    \/ \E o \in Outcomes : BootInfo(o)
    \/ \E o \in Outcomes : BootReissued(o)
    \/ BootEnd
    \/ \E r \in Requests : Construct(r)
    \/ \E r \in Requests : Enter(r, MaxCalls)
    \/ \E r \in Requests : BeginTransport(r)
    \/ \E r \in Requests : CallReturns(r)
    \/ \E r \in Requests, o \in {"timeout", "svcerr"} : CallFails(r, o)
    \/ Tick

\* One caller constructs a TelegraphIfy and awaits its telegraph_ify(), whose
\* create_page returns a page.
NextPage ==
    \/ \E r \in Requests : Construct(r)
    \/ \E r \in Requests : Enter(r, MaxCalls)
    \/ \E r \in Requests : BeginTransport(r)
    \/ \E r \in Requests : CallReturns(r)
    \/ Tick

Spec == Init /\ [][Next]_vars

SpecPage == InitPage /\ [][NextPage]_vars

SpecBoot == InitBoot /\ [][NextBoot]_vars

SpecConc == InitConc /\ [][NextConc]_vars

\* The event loop runs every task that is ready, time passes, and every
\* create_account ends (its session has a total timeout).
Fairness ==
    /\ WF_vars(Tick)
    /\ \A r \in Requests :
          /\ WF_vars(BeginTransport(r))
          /\ WF_vars(PassGate(r))
          /\ WF_vars(AcquireRequestLock(r))
    /\ \A r \in Requests, k \in Levels :
          /\ WF_vars(CdStart(r, k))
          /\ WF_vars(CdAcquire(r, k))
          /\ WF_vars(CdWake(r, k))
          /\ WF_vars(\E ok \in BOOLEAN : CdIssued(r, k, ok))

LiveConc == SpecConc /\ Fairness

\* Under Spec the steps Next leaves out are never enabled.
NoLockWaitAlone ==
    /\ \A r \in Requests : pc[r] # "lock"
    /\ \A r \in Requests, k \in Levels : cd[r][k].st # "gatewait"

\* ------------------------------------------------------------- claims

\* Every transport call of r that has ended raised a network error.
OnlyNetErrors(r) ==
    /\ calls[r] > 0
    /\ retries[r] = 0
    /\ tout[r][0] \in {"none", "overflow", "net"}

\* C1: when every createPage call raises a network error, a request makes
\* exactly 3 transport attempts and then ends with the too-many-retries error.
C1_NetRetryBudget ==
    \A r \in Requests :
        OnlyNetErrors(r) =>
            /\ calls[r] <= 3
            /\ pc[r] = "done" => calls[r] = 3 /\ tout[r][0] = "overflow"

\* C2: after a flood error with retry-after below 60 on account A, a retry that
\* selects A again does not begin its transport call before the cooldown for
\* that error has finished and reopened the gate.
C2_RetryWaitsForCooldown ==
    \A r \in Requests :
        (/\ retries[r] >= 1
         /\ pc[r] = "call"
         /\ cd[r][retries[r]].acct = acct[r]
         /\ cd[r][retries[r]].ra < FloodLimit)
        => cd[r][retries[r]].st = "done"

\* C3: at most one createPage transport call of an account is in flight.
C3_OneCallInFlight ==
    \A a \in Accounts :
        Cardinality({r \in Requests : pc[r] = "call" /\ acct[r] = a}) <= 1

C3_Witness ==
    \E r, q \in Requests :
        /\ r # q
        /\ acct[r] = acct[q]
        /\ pc[r] = "call"
        /\ pc[q] = "lock"

\* C4: the transport calls of two consecutive publish calls on one account
\* never begin less than 500 ms apart, whether the first succeeded or failed.
C4_Spacing ==
    [][\A r \in Requests :
          (pc[r] = "sleep" /\ pc'[r] = "call") => start_age[acct[r]] >= Spacing]_vars

\* C5: get_account returns the accounts of the pool cyclically in pool order:
\* after t calls, the account at index i was returned for every call number
\* below t that is i modulo the pool size, so that two counts differ by at
\* most one.
C5_RoundRobin ==
    LET n == Len(accounts)
    IN /\ \A i \in 1..n : selCount[accounts[i]] = (TotalSel + n - i) \div n
       /\ \A a, b \in Accounts :
            a <= n /\ b <= n => selCount[a] - selCount[b] \in {-1, 0, 1}
       /\ curr_id = TotalSel % n

C5_Witness == Len(accounts) = 2 /\ selCount[1] = 2 /\ selCount[2] = 1

\* C6: a publish call that reaches an account whose flood gate is closed does
\* not get past the gate, to the request lock and the transport call, before
\* the flood_wait that closed the gate has reopened it.
C6_GateBlocks ==
    \A r \in Requests :
        pc[r] \in {"lock", "sleep", "call"} =>
            \A d \in blockedBy[r] : cd[d[1]][d[2]].st \in {"done", "failed"}

C6_Witness ==
    \E r \in Requests : pc[r] = "call" /\ blockedBy[r] # {}

\* What C7 says of a flood_wait that holds the gate, and of one that has held it.
C7_Holding ==
    \A r \in Requests, k \in Levels :
        LET c == cd[r][k]
        IN /\ c.st = "sleeping" =>
                /\ c.ra < FloodLimit
                /\ fc_locked[c.acct]
                /\ c.issued = 0
                /\ c.slept + c.timer = 2 * (c.ra + 1)
           /\ c.st = "issuing" =>
                /\ c.ra >= FloodLimit
                /\ fc_locked[c.acct]
                /\ c.slept = 0
                /\ c.issued = 1

\* What C7 says of the steps of a flood_wait: it closes an open gate, and it
\* reopens it when its sleep or its create_account is over.
C7_Steps ==
    \A r \in Requests, k \in Levels :
        LET c == cd[r][k]
            n == cd'[r][k]
            a == c.acct
        IN /\ (c.st = "spawned" /\ ~fc_locked[a] /\ n # c) =>
                n.st \in {"sleeping", "issuing", "gatewait"}
           /\ (c.st \in {"spawned", "gatewait"} /\ n.st \in {"sleeping", "issuing"}) =>
                ~fc_locked[a] /\ fc_locked'[a] /\ token' = token
           /\ (c.st = "sleeping" /\ n.st # "sleeping") =>
                /\ c.slept = 2 * (c.ra + 1)
                /\ n.st = "done" /\ ~fc_locked'[a] /\ token' = token
           /\ (c.st = "issuing" /\ n.st # "issuing") =>
                /\ ~fc_locked'[a]
                /\ IF n.st = "done"
                   THEN token' = [token EXCEPT ![a] = @ + 1]
                   ELSE token' = token

\* C7: flood_wait(N) on an account whose gate is open closes the gate; for
\* N >= 60 it creates a new account without sleeping and reopens the gate when
\* create_account returns; for N < 60 it sleeps N + 1 seconds, leaves the
\* credential alone and reopens the gate. 59 sleeps, 60 creates an account.
C7_Cooldown == []C7_Holding /\ [][C7_Steps]_vars

C7_Witness ==
    \E r \in Requests, k \in Levels :
        /\ cd[r][k].st = "sleeping"
        /\ cd[r][k].ra = 59 /\ cd[r][k].slept = 120
        /\ token[cd[r][k].acct] = 1

\* What C8 says of the state: one flood_wait at most holds a gate, and the
\* gate is closed exactly while one holds it.
C8_OneHolder ==
    \A a \in Accounts :
        /\ Cardinality(Holders(a)) <= 1
        /\ fc_locked[a] <=> Holders(a) # {}

\* What C8 says of the step of a flood_wait that meets a closed gate.
C8_Steps ==
    \A r \in Requests, k \in Levels :
        (cd[r][k].st = "spawned" /\ fc_locked[cd[r][k].acct] /\ cd'[r][k] # cd[r][k]) =>
            /\ cd'[r][k].st = "done"
            /\ cd'[r][k].slept = 0 /\ cd'[r][k].issued = 0 /\ ~cd'[r][k].closed
            /\ \A q \in Requests, j \in Levels : <<q, j>> # <<r, k>> => cd'[q][j] = cd[q][j]
            /\ UNCHANGED <<fc_locked, fc_waiters, token, timer>>

\* C8: flood_wait on an account whose gate is closed is a no-op: it returns
\* without sleeping and without creating an account, and leaves the gate and
\* the credential as they are; so one flood_wait at most holds a gate closed.
C8_NoopWhenClosed == []C8_OneHolder /\ [][C8_Steps]_vars

C8_Witness ==
    \E r \in Requests, k \in Levels :
        /\ cd[r][k].st = "done"
        /\ ~cd[r][k].closed
        /\ \E a \in Accounts : fc_locked[a]

\* Every transport call of r that has ended raised a flood error with a
\* retry-after below 60.
OnlyShortFloods(r) ==
    /\ calls[r] > 0
    /\ calls[r] = retries[r] + (IF pc[r] = "call" THEN 1 ELSE 0)
    /\ ~long_flood[r]

C9_Budget ==
    \A r \in Requests :
        /\ retries[r] \in 0..3
        /\ OnlyShortFloods(r) =>
            /\ calls[r] <= 3
            /\ retries[r] = 3 => pc[r] \in {"ready", "done"}
            /\ pc[r] = "done" => calls[r] = 3 /\ tout[r][0] = "overflow"

C9_Steps ==
    \A r \in Requests :
        LET flood == \E k \in Levels : cd[r][k].st = "none" /\ cd'[r][k].st = "spawned"
        IN /\ retries'[r] = retries[r] + (IF flood THEN 1 ELSE 0)
           /\ flood => pc[r] = "call" /\ cd'[r][retries'[r]].st = "spawned"

\* C9: when every createPage call raises a flood error (retry-after below 60),
\* a request makes exactly 3 transport attempts and then fails with the
\* too-many-retries error, with no 4th attempt; the retry count stays within
\* 0..3 and grows by exactly 1 per flood error.
C9_FloodRetryBudget == []C9_Budget /\ [][C9_Steps]_vars

C9_Witness ==
    \E r \in Requests :
        /\ OnlyShortFloods(r)
        /\ pc[r] = "done"
        /\ calls[r] = 3
        /\ tout[r][0] = "overflow"

\* C10: when a createPage call raises a timeout, or a service error that is
\* no flood error, the publish request ends with that same error.
C10_TerminalError ==
    \A r \in Requests :
        tout[r][retries[r]] \in {"timeout", "svcerr"} =>
            tout[r][0] = tout[r][retries[r]]

\* C11: when a request has met flood errors and its last retry returns a url,
\* the caller gets that url and no exception, whatever the flood_wait tasks
\* do (sleep, or create an account, which may raise).
C11_RetryUrlReachesCaller ==
    \A r \in Requests :
        (retries[r] >= 1 /\ tout[r][retries[r]] = "url") =>
            tout[r][0] \in {"none", "url"}

\* The tasks in the queue of a sequence of waiters.
Waiting(q) == {q[i] : i \in 1..Len(q)}

\* What C12 says of the state: a publish call waits in the queues of its own
\* account only.
C12_OwnQueues ==
    \A r \in Requests, a \in Accounts :
        /\ <<r, 0>> \in Waiting(fc_waiters[a]) <=> (pc[r] = "gate" /\ acct[r] = a)
        /\ <<r, 0>> \in Waiting(request_waiters[a]) <=> (pc[r] = "lock" /\ acct[r] = a)

\* What C12 says of the steps: a publish call starts to wait at a gate or for
\* a request lock only when that of its own account is taken or waited for,
\* whatever the state of the other accounts.
C12_Steps ==
    \A r \in Requests :
        LET b == acct'[r]
        IN /\ (pc[r] # "gate" /\ pc'[r] = "gate") =>
                fc_locked[b] \/ fc_waiters[b] # <<>>
           /\ (pc[r] # "lock" /\ pc'[r] = "lock") =>
                request_locked[b] \/ request_waiters[b] # <<>>

\* C12: while account A's gate is closed, a publish call on another account B
\* takes B's request lock and begins and finishes its transport call without
\* waiting for A's gate: no lock and no gate is shared between accounts.
C12_NoCrossAccount == []C12_OwnQueues /\ [][C12_Steps]_vars

\* A retry ran on the other account of a pool of two and returned its url
\* while the flood_wait for its flood error still holds the first account's
\* gate closed, with another publish call waiting at that gate.
C12_Witness ==
    \E q, p \in Requests :
        /\ Len(accounts) = 2
        /\ calls[q] = 2
        /\ tout[q][1] = "url"
        /\ cd[q][1].st \in {"sleeping", "issuing"}
        /\ pc[p] = "gate"
        /\ acct[p] = cd[q][1].acct
        /\ fc_locked[acct[p]]

\* What C13 says of the state init leaves: the pool is invalid (`apis` is
\* None) exactly when no account was added.
C13_ValidIffAdded ==
    boot.st = "done" => (apis = "none" <=> accounts = <<>>)

\* What C13 says of the steps of init: each ends one await and goes on, with
\* the same token or the next, and a token whose account is left out has
\* failed validation and has had create_account called, which raised.
C13_Steps ==
    /\ boot.st \in {"issue", "info", "reissue"} =>
          \/ boot'.st \in {"info", "reissue"} /\ boot'.i = boot.i
          \/ boot'.st = "next" /\ boot'.i = boot.i + 1
    /\ (boot'.st = "next" /\ boot'.i = boot.i + 1 /\ accounts' = accounts) =>
          boot'.invalid /\ boot'.tried /\ boot'.failed

\* C13: init leaves an account out of the pool only if its validation failed
\* and a create_account for it was attempted and failed too; whatever the
\* calls of a token do, init goes on with the next token; and the pool is
\* invalid exactly when no account was added.
C13_PoolInit == []C13_ValidIffAdded /\ [][C13_Steps]_vars

\* C14: with an empty credential list the pool is invalid, and every publish
\* request then fails at once with the configuration error, without selecting
\* an account and without a transport call.
C14_NoPoolNoPublish ==
    /\ (tokens = <<>> /\ boot.st # "start") =>
          apis = "none" /\ ~Valid(accounts)
    /\ apis = "none" =>
          /\ \A a \in Accounts : selCount[a] = 0
          /\ \A r \in Requests :
                /\ pc[r] \in {"absent", "init", "done"}
                /\ calls[r] = 0 /\ acct[r] = 0
                /\ pc[r] = "done" => tout[r][0] = "config"

C14_Witness ==
    /\ tokens = <<>>
    /\ pc[1] = "done"
    /\ tout[1][0] = "config"

\* What is left of a token of the parse tree: nothing of the tags that
\* Telegraph does not allow, and of the other tags only href and src.
Kept(tok) == tok.t = "text" \/ tok.name \in TELEGRAPH_ALLOWED_TAGS

RECURSIVE Expected(_)
Expected(s) ==
    IF s = <<>> THEN <<>>
    ELSE (IF Kept(Head(s))
          THEN <<[Head(s) EXCEPT !.attrs = @ \ {"onclick", "class"}]>>
          ELSE <<>>) \o Expected(Tail(s))

C16_Idempotent ==
    \A r \in Requests :
        pc[r] \notin {"init", "absent"} =>
            Sanitized(Sanitized(xml[r])) = Sanitized(xml[r])

\* C17 (state): no task holds the request lock of an account while it waits
\* at that account's gate, and a flood_wait never takes a request lock: the
\* lock of an account is held by exactly the one publish call that sleeps or
\* calls the transport on it, and free when there is none.
C17_LockHolders ==
    \A a \in Accounts :
        LET users == {r \in Requests : pc[r] \in {"sleep", "call"} /\ acct[r] = a}
        IN /\ Cardinality(users) <= 1
           /\ request_locked[a] <=> users # {}
           /\ \A r \in Requests : pc[r] = "gate" /\ acct[r] = a => r \notin users

\* C17 (state): whoever waits at a gate or for a request lock waits for a task
\* that does not wait itself: the gate is held by a flood_wait that sleeps or
\* awaits create_account, the request lock by a publish call that sleeps or
\* awaits the transport; or it is free and its first waiter is about to run.
C17_Waits ==
    \A a \in Accounts :
        /\ fc_waiters[a] # <<>> =>
              IF fc_locked[a] THEN Holders(a) # {}
              ELSE LET h == Head(fc_waiters[a])
                   IN IF h[2] = 0 THEN pc[h[1]] = "gate" /\ acct[h[1]] = a
                      ELSE cd[h[1]][h[2]].st = "gatewait" /\ cd[h[1]][h[2]].acct = a
        /\ request_waiters[a] # <<>> =>
              IF request_locked[a]
              THEN \E r \in Requests : pc[r] \in {"sleep", "call"} /\ acct[r] = a
              ELSE LET h == Head(request_waiters[a])
                   IN pc[h[1]] = "lock" /\ acct[h[1]] = a

\* C17: no task holds an account's request lock while it waits at that
\* account's gate, the flood_wait that holds the gate closed never takes the
\* request lock, and so no interleaving of publish calls and flood_waits
\* deadlocks.
C17_NoDeadlock == C17_LockHolders /\ C17_Waits

\* A publish call waits at the closed gate of an account while another is in
\* its transport call on that account, holding the request lock.
C17_Witness ==
    \E r, q \in Requests :
        /\ pc[r] = "gate"
        /\ pc[q] = "call"
        /\ acct[r] = acct[q]
        /\ fc_locked[acct[r]]
        /\ request_locked[acct[r]]

\* C18: a gate that is closed is reopened, after the sleep of N + 1 seconds or
\* when create_account has returned or raised; no gate stays closed for ever,
\* and every publish call that waits at a gate gets past it.
C18_GateReopens ==
    /\ \A a \in Accounts : fc_locked[a] ~> ~fc_locked[a]
    /\ \A r \in Requests : (pc[r] = "gate") ~> (pc[r] # "gate")

\* A publish call that met a closed gate is past it, and the gate is open.
C18_Witness ==
    \E r \in Requests :
        /\ blockedBy[r] # {}
        /\ pc[r] \in {"lock", "sleep"}
        /\ ~fc_locked[acct[r]]

\* The accounts of the pool.
Pool == {accounts[i] : i \in 1..Len(accounts)}

\* What C19 says of the state: the cursor is an index of the pool, and the
\* account of every running telegraph_ify() is one of the pool.
C19_InRange ==
    /\ accounts # <<>> => curr_id \in 0..(Len(accounts) - 1)
    /\ \A r \in Requests : acct[r] # 0 => acct[r] \in Pool

\* What C19 says of get_account: the index it reads is one of the pool, and
\* the account it returns is the account at that index.
C19_Steps ==
    \A r \in Requests :
        (acct'[r] # acct[r] /\ acct'[r] # 0) =>
            LET i == IF 0 <= curr_id /\ curr_id < Len(accounts) THEN curr_id ELSE 0
            IN /\ i + 1 \in DOMAIN accounts
               /\ acct'[r] = accounts[i + 1]
               /\ curr_id' \in 0..(Len(accounts) - 1)

\* C19: for a pool that is not empty the cursor is within [0, pool size) after
\* the pool's initialization and after every get_account, and get_account
\* never indexes outside the pool, also for a pool of one account and with
\* publish requests running concurrently.
C19_CursorInRange == []C19_InRange /\ [][C19_Steps]_vars

\* Two publish requests run at once on the one account of a pool of one.
C19_Witness ==
    /\ Len(accounts) = 1
    /\ curr_id = 0
    /\ \E r, q \in Requests : r # q /\ acct[r] = 1 /\ acct[q] = 1

\* C20: the body given to create_page is the sanitized markup followed by the
\* fixed footer, with a link or without; only the link to the source is
\* there only when a link was given.
C20_Body ==
    \A r \in Requests :
        pc[r] = "call" =>
            content[r] = Sanitized(xml[r]) \o Footer
                         \o (IF link[r] THEN Source ELSE <<>>)

====
